---- MODULE Spec2Model ----
(***************************************************************************)
(* Model of the virtual-host reconciliation pipelines of phpvhost:         *)
(*   src/phpvhost.py         PHPVHostManager.register_project /            *)
(*                           remove_project and the helpers they call      *)
(*   src/laravel_vhoster.py  register_interactive / remove_interactive     *)
(* Files are sequences of tokens (a token stands for a run of characters,  *)
(* "\n" for the line terminator); external tools and file operations are   *)
(* nondeterministic in their outcome.                                      *)
(***************************************************************************)
EXTENDS Integers, Sequences, FiniteSets, TLC

VARIABLES
    hosts,            \* content of /etc/hosts
    httpd,            \* content of /etc/httpd/conf/httpd.conf
    vhosts,           \* domain -> <<>> (no file) or <<content>> of <domain>.conf
    certFile,         \* domain -> 0 (no file) or the serial of <domain>.pem
    keyFile,          \* domain -> 0 (no file) or the serial of <domain>-key.pem
    runs,             \* invocations started so far
    mkcertInstalled,  \* whether shutil.which("mkcert") finds the CA tool
    tool,             \* entry point of the current invocation
    op,               \* "register" or "remove"
    dom,              \* domain of the current invocation
    path,             \* document root of the current invocation
    pc,               \* step the invocation is about to run, or "done"
    result,           \* how the invocation ended, "running" while it runs
    steps,            \* steps the invocation has run so far, in order
    invoked,          \* external tools the invocation has launched
    envFail,          \* an external tool or file operation failed in this invocation
    bootFailed,       \* the CA bootstrap failed in this invocation
    certResult,       \* what generate_ssl_cert returned: "none" before it, "pair", "failed"
    restartOutcome,   \* outcome of the restart call, "none" before it
    pre,              \* the stores when the current invocation started
    prev              \* the previous invocation and the stores when it started

vars == <<hosts, httpd, vhosts, certFile, keyFile, mkcertInstalled, runs,
          tool, op, dom, path, pc, result, steps, invoked, envFail, bootFailed,
          certResult, restartOutcome, pre, prev>>

stores == <<hosts, httpd, vhosts, certFile, keyFile, mkcertInstalled>>
invocation == <<tool, op, dom, path, pre, prev, runs>>

(***************************************************************************)
(* Bounds of the model.                                                    *)
(***************************************************************************)
MaxRuns == 2

(***************************************************************************)
(* Tokens and inputs.                                                      *)
(***************************************************************************)
NL == "\n"
IP == "127.0.0.1    "
TestSuffix == ".test"
IncludeToken == "IncludeOptional conf/extra/"
SslModuleToken == "LoadModule ssl_module"

Tools == {"phpvhost", "laravel"}
Names == {<<"app">>, <<"my", "app">>}
ExistingPaths == {"/srv/app/public"}
Paths == ExistingPaths \cup {"/srv/missing"}
NoPath == "-"

Domain(name) == name \o <<TestSuffix>>
Domains == {Domain(n) : n \in Names}

InitHosts ==
    { <<>>,
      <<IP, "localhost">>,
      <<IP, "my", "app", TestSuffix, NL>>,
      <<IP, "app", TestSuffix, NL, "::1 ", "app", TestSuffix, NL>> }

InitHttpd ==
    { <<"#", SslModuleToken, NL>>,
      <<SslModuleToken, NL, IncludeToken, "sites/*.conf">> }

(***************************************************************************)
(* Text files.                                                             *)
(***************************************************************************)
FirstNL(f) ==
    IF \E i \in 1..Len(f) : f[i] = NL
    THEN CHOOSE i \in 1..Len(f) : f[i] = NL /\ \A j \in 1..(i - 1) : f[j] # NL
    ELSE Len(f)

RECURSIVE ReadLines(_)
ReadLines(f) ==
    IF f = <<>> THEN <<>>
    ELSE <<SubSeq(f, 1, FirstNL(f))>> \o ReadLines(SubSeq(f, FirstNL(f) + 1, Len(f)))

RECURSIVE WriteLines(_)
WriteLines(lines) ==
    IF lines = <<>> THEN <<>> ELSE Head(lines) \o WriteLines(Tail(lines))

Contains(line, s) ==
    \E i \in 1..(Len(line) - Len(s) + 1) : SubSeq(line, i, i + Len(s) - 1) = s

AnyLineContains(f, s) ==
    \E k \in 1..Len(ReadLines(f)) : Contains(ReadLines(f)[k], s)

\* mutant of KeepLinesWithout: the filter drops the last remaining line as well
KeepLinesDropLast(lines, s) ==
    LET kept == SelectSeq(lines, LAMBDA l : ~Contains(l, s))
    IN IF kept = <<>> THEN <<>> ELSE SubSeq(kept, 1, Len(kept) - 1)

\* mutant of KeepLinesWithout: the filter drops only the lines "<address> <s>"
KeepLinesNotNaming(lines, s) ==
    SelectSeq(lines, LAMBDA l :
        LET body == IF l # <<>> /\ l[Len(l)] = NL THEN SubSeq(l, 1, Len(l) - 1) ELSE l
        IN ~(Len(body) = Len(s) + 1 /\ SubSeq(body, 2, Len(body)) = s))

\* update_hosts(add=False): [line for line in lines if domain not in line]
RECURSIVE KeepLinesWithout(_, _)
KeepLinesWithout(lines, s) ==
    IF lines = <<>> THEN <<>>
    ELSE (IF Contains(Head(lines), s) THEN <<>> ELSE <<Head(lines)>>)
         \o KeepLinesWithout(Tail(lines), s)

(***************************************************************************)
(* Helpers of the pipelines, as the code computes them.                    *)
(***************************************************************************)
\* mutant of EnsureInclude: the directive is looked for as an exact line
EnsureIncludeExactLine(f) ==
    IF \E k \in 1..Len(ReadLines(f)) : ReadLines(f)[k] = <<IncludeToken, "*.conf">> THEN f
    ELSE f \o <<NL, IncludeToken, "*.conf", NL>>

\* ensure_include_in_httpd: append "\n" + include_line unless a line holds the token
EnsureInclude(f) ==
    IF AnyLineContains(f, <<IncludeToken>>) THEN f
    ELSE f \o <<NL, IncludeToken, "*.conf", NL>>

\* laravel_vhoster.check_and_enable_mod_ssl: an uncommented LoadModule ssl_module line
SslModuleEnabled(f) ==
    \E k \in 1..Len(ReadLines(f)) :
        /\ Contains(ReadLines(f)[k], <<SslModuleToken>>)
        /\ Head(ReadLines(f)[k]) # "#"

\* install_mkcert: the first package manager that shutil.which finds
PickInstaller(avail) ==
    IF "brew" \in avail THEN "brew"
    ELSE IF "pacman" \in avail THEN "pacman"
    ELSE IF "apt" \in avail THEN "apt"
    ELSE "none"

\* mutant of PairExists: the existing pair is never recognised, mkcert runs every time
PairExistsNever(c, k) == FALSE

\* generate_ssl_cert: cert_path.exists() and key_path.exists()
PairExists(c, k) == c # 0 /\ k # 0

CertPath(d) == <<"~/.localhost-ssl/">> \o d \o <<".pem">>
KeyPath(d) == <<"~/.localhost-ssl/">> \o d \o <<"-key.pem">>

\* create_vhost_file: the rendered two-block template
VhostConfig(d, p, cert, key) ==
    [ServerName |-> d, DocumentRoot |-> p,
     Ports |-> <<80, 443>>,
     SSLCertificateFile |-> cert, SSLCertificateKeyFile |-> key]

\* mutant of UpdateHosts: add appends without looking for an existing line
UpdateHostsAlwaysAppend(f, d, add) ==
    IF add
    THEN f \o <<NL, IP>> \o d \o <<NL>>
    ELSE WriteLines(KeepLinesWithout(ReadLines(f), d))

\* update_hosts
UpdateHosts(f, d, add) ==
    IF add
    THEN IF AnyLineContains(f, d) THEN f ELSE f \o <<NL, IP>> \o d \o <<NL>>
    ELSE WriteLines(KeepLinesWithout(ReadLines(f), d))

\* the order in which register_project / register_interactive / remove run their steps
RegisterSteps(t) ==
    IF t = "phpvhost"
    THEN <<"pathcheck", "include", "install", "ca", "modssl",
           "cert", "vhost", "hosts", "restart">>
    ELSE <<"include", "install", "ca", "modssl", "pathcheck",
           "cert", "vhost", "hosts", "restart">>

RemoveSteps == <<"vhostdel", "hostsrm", "certdel", "restart">>

StepsOf(t, o) == IF o = "register" THEN RegisterSteps(t) ELSE RemoveSteps

NextStep(t, o, s) ==
    LET seq == StepsOf(t, o)
        i == CHOOSE j \in 1..Len(seq) : seq[j] = s
    IN IF i = Len(seq) THEN "done" ELSE seq[i + 1]

\* an exception: caught by the try/except of PHPVHostManager, a traceback in laravel_vhoster
Raised(t) == IF t = "phpvhost" THEN "caught" ELSE "uncaught"

\* a failed prerequisite: swallowed by PHPVHostManager, sys.exit(1) in laravel_vhoster
PrereqFailureHalts(t) == t = "laravel"

\* mutant of CertMissing: the returned pair is not checked
CertMissingIgnored(r) == FALSE

\* register: "if not cert or not key: return"
CertMissing(r) == r = "failed"

\* mutant of DeleteSslCertFiles: the key is unlinked only when the certificate existed
DeleteSslCertFilesTogether(c, k, out) ==
    [cert |-> IF out = "fail_cert" THEN c ELSE 0,
     key |-> IF out = "ok" /\ c # 0 THEN 0 ELSE k]

\* delete_ssl_cert: unlink the certificate if it exists, then the key if it exists;
\* out says which unlink, if any, raises
DeleteSslCertFiles(c, k, out) ==
    [cert |-> IF out = "fail_cert" THEN c ELSE 0,
     key |-> IF out = "ok" THEN 0 ELSE k]

\* restart_apache catches subprocess.CalledProcessError only
RestartRaises(out) == out = "oserror"

\* mkcert issues a fresh certificate and key: their content differs from the files
\* they replace (serials 1 and 2 are enough to tell a file from its replacement)
FreshSerial(c, k) == IF c = 1 \/ k = 1 THEN 2 ELSE 1

\* what a launch of mkcert can do: write both files and exit 0, write nothing or one
\* file and exit non-zero (or not start at all), or exit 0 having written one file
MkcertOutcomes ==
    {"ok", "fail", "fail_cert_only", "fail_key_only", "exit0_cert_only", "exit0_key_only"}

\* generate_ssl_cert: subprocess.run(..., check=True) raises on a non-zero exit only;
\* after an exit 0 the two paths are returned without looking at the files
MkcertExitsZero(out) == out \in {"ok", "exit0_cert_only", "exit0_key_only"}

Snapshot ==
    [hosts |-> hosts, httpd |-> httpd, vhosts |-> vhosts,
     certFile |-> certFile, keyFile |-> keyFile]

(***************************************************************************)
(* Initial state: nothing registered yet.                                  *)
(***************************************************************************)
Init ==
    /\ hosts \in InitHosts
    /\ httpd \in InitHttpd
    /\ vhosts = [d \in Domains |-> <<>>]
    /\ certFile = [d \in Domains |-> 0]
    /\ keyFile = [d \in Domains |-> 0]
    /\ runs = 0
    /\ mkcertInstalled \in BOOLEAN
    /\ tool = "none"
    /\ op = "none"
    /\ dom = <<>>
    /\ path = NoPath
    /\ pc = "done"
    /\ result = "none"
    /\ steps = <<>>
    /\ invoked = {}
    /\ envFail = FALSE
    /\ bootFailed = FALSE
    /\ certResult = "none"
    /\ restartOutcome = "none"
    /\ pre = Snapshot
    /\ prev = [op |-> "none", tool |-> "none", dom |-> <<>>, path |-> NoPath,
               result |-> "none", envFail |-> FALSE, pre |-> Snapshot]

(***************************************************************************)
(* Control flow shared by the steps.                                       *)
(***************************************************************************)
Ran(s) == pc = s /\ steps' = Append(steps, s)
Advance == pc' = NextStep(tool, op, pc) /\ result' = result
Halt(r) == pc' = "done" /\ result' = r

\* manage_projects offers for removal the domains get_existing_projects lists, those
\* with a <domain>.conf file; remove_interactive takes any project name
Removable(t, d) == t = "laravel" \/ vhosts[d] # <<>>

\* main(): the privilege check, then one pipeline
Invoke ==
    /\ pc = "done"
    /\ runs < MaxRuns
    /\ runs' = runs + 1
    /\ \E t \in Tools, o \in {"register", "remove"}, n \in Names, root \in BOOLEAN :
         \E p \in (IF o = "register" THEN Paths ELSE {NoPath}) :
           /\ (o = "remove" /\ root) => Removable(t, Domain(n))
           /\ tool' = t
           /\ op' = o
           /\ dom' = Domain(n)
           /\ path' = p
           /\ IF root
              THEN pc' = StepsOf(t, o)[1] /\ result' = "running"
              ELSE pc' = "done" /\ result' = "sysexit"
    /\ prev' = [op |-> op, tool |-> tool, dom |-> dom, path |-> path,
                result |-> result, envFail |-> envFail, pre |-> pre]
    /\ pre' = Snapshot
    /\ steps' = <<>>
    /\ invoked' = {}
    /\ envFail' = FALSE
    /\ bootFailed' = FALSE
    /\ certResult' = "none"
    /\ restartOutcome' = "none"
    /\ UNCHANGED stores

(***************************************************************************)
(* Register.                                                               *)
(***************************************************************************)
\* os.path.exists(full_path) / os.path.exists(public_path)
PathCheck ==
    /\ Ran("pathcheck")
    /\ IF path \in ExistingPaths THEN Advance ELSE Halt("returned")
    /\ UNCHANGED <<stores, invocation, invoked, envFail, bootFailed, certResult, restartOutcome>>

EnsureIncludeInHttpd ==
    /\ Ran("include")
    /\ \E ioOk \in BOOLEAN :
         IF ioOk
         THEN /\ httpd' = EnsureInclude(httpd)
              /\ Advance
              /\ UNCHANGED envFail
         ELSE /\ UNCHANGED httpd
              /\ Halt(Raised(tool))
              /\ envFail' = TRUE
    /\ UNCHANGED <<hosts, vhosts, certFile, keyFile, mkcertInstalled,
                   invocation, invoked, bootFailed, certResult, restartOutcome>>

InstallMkcert ==
    /\ Ran("install")
    /\ IF mkcertInstalled
       THEN /\ Advance
            /\ UNCHANGED <<mkcertInstalled, invoked, envFail, bootFailed>>
       ELSE \E avail \in SUBSET {"brew", "pacman", "apt"}, ok \in BOOLEAN :
              /\ invoked' = IF PickInstaller(avail) = "none" THEN invoked
                            ELSE invoked \cup {"pkg"}
              /\ IF PickInstaller(avail) # "none" /\ ok
                 THEN /\ mkcertInstalled' = TRUE
                      /\ Advance
                      /\ UNCHANGED <<envFail, bootFailed>>
                 ELSE /\ UNCHANGED mkcertInstalled
                      /\ envFail' = TRUE
                      /\ bootFailed' = TRUE
                      /\ IF PrereqFailureHalts(tool) THEN Halt("sysexit") ELSE Advance
    /\ UNCHANGED <<hosts, httpd, vhosts, certFile, keyFile,
                   invocation, certResult, restartOutcome>>

SetupMkcertCa ==
    /\ Ran("ca")
    /\ invoked' = IF mkcertInstalled THEN invoked \cup {"mkcert"} ELSE invoked
    /\ \E ok \in BOOLEAN :
         IF ok /\ mkcertInstalled
         THEN Advance /\ UNCHANGED <<envFail, bootFailed>>
         ELSE /\ envFail' = TRUE
              /\ bootFailed' = TRUE
              /\ IF PrereqFailureHalts(tool) THEN Halt("sysexit") ELSE Advance
    /\ UNCHANGED <<stores, invocation, certResult, restartOutcome>>

CheckAndEnableModSsl ==
    /\ Ran("modssl")
    /\ \E a2enmod \in BOOLEAN, ok \in BOOLEAN :
         LET launch == a2enmod /\ (tool = "phpvhost" \/ ~SslModuleEnabled(httpd))
         IN /\ envFail' = (envFail \/ (launch /\ ~ok))
            /\ IF launch /\ ~ok /\ tool = "laravel"
               THEN Halt("uncaught")
               ELSE Advance
    /\ UNCHANGED <<stores, invocation, invoked, bootFailed, certResult, restartOutcome>>

GenerateSslCert ==
    /\ Ran("cert")
    /\ IF PairExists(certFile[dom], keyFile[dom])
       THEN /\ certResult' = "pair"
            /\ UNCHANGED <<certFile, keyFile, invoked, envFail>>
       ELSE /\ invoked' = IF mkcertInstalled THEN invoked \cup {"mkcert"} ELSE invoked
            /\ \E out \in MkcertOutcomes :
                 LET serial == FreshSerial(certFile[dom], keyFile[dom])
                 IN /\ (out # "fail") => mkcertInstalled
                    /\ certFile' = IF out \in {"ok", "fail_cert_only", "exit0_cert_only"}
                                   THEN [certFile EXCEPT ![dom] = serial] ELSE certFile
                    /\ keyFile' = IF out \in {"ok", "fail_key_only", "exit0_key_only"}
                                  THEN [keyFile EXCEPT ![dom] = serial] ELSE keyFile
                    /\ certResult' = IF MkcertExitsZero(out) THEN "pair" ELSE "failed"
                    /\ envFail' = (envFail \/ out # "ok")
    /\ IF CertMissing(certResult') THEN Halt("returned") ELSE Advance
    /\ UNCHANGED <<hosts, httpd, vhosts, mkcertInstalled, invocation, bootFailed,
                   restartOutcome>>

CreateVhostFile ==
    /\ Ran("vhost")
    /\ \E ioOk \in BOOLEAN :
         IF ioOk
         THEN /\ vhosts' = [vhosts EXCEPT ![dom] =
                               <<VhostConfig(dom, path, CertPath(dom), KeyPath(dom))>>]
              /\ Advance
              /\ UNCHANGED envFail
         ELSE /\ UNCHANGED vhosts
              /\ Halt(Raised(tool))
              /\ envFail' = TRUE
    /\ UNCHANGED <<hosts, httpd, certFile, keyFile, mkcertInstalled,
                   invocation, invoked, bootFailed, certResult, restartOutcome>>

UpdateHostsAdd ==
    /\ Ran("hosts")
    /\ \E ioOk \in BOOLEAN :
         IF ioOk
         THEN /\ hosts' = UpdateHosts(hosts, dom, TRUE)
              /\ Advance
              /\ UNCHANGED envFail
         ELSE /\ UNCHANGED hosts
              /\ Halt(Raised(tool))
              /\ envFail' = TRUE
    /\ UNCHANGED <<httpd, vhosts, certFile, keyFile, mkcertInstalled,
                   invocation, invoked, bootFailed, certResult, restartOutcome>>

\* restart_apache, then the success message of the pipeline
RestartApache ==
    /\ Ran("restart")
    /\ invoked' = invoked \cup {"systemctl"}
    /\ \E out \in {"ok", "nonzero", "oserror"} :
         /\ restartOutcome' = out
         /\ envFail' = (envFail \/ out # "ok")
         /\ IF RestartRaises(out) THEN Halt(Raised(tool)) ELSE Halt("ok")
    /\ UNCHANGED <<stores, invocation, bootFailed, certResult>>

(***************************************************************************)
(* Remove.                                                                 *)
(***************************************************************************)
DeleteVhost ==
    /\ Ran("vhostdel")
    /\ IF vhosts[dom] = <<>>
       THEN Advance /\ UNCHANGED <<vhosts, envFail>>
       ELSE \E ioOk \in BOOLEAN :
              IF ioOk
              THEN /\ vhosts' = [vhosts EXCEPT ![dom] = <<>>]
                   /\ Advance
                   /\ UNCHANGED envFail
              ELSE /\ UNCHANGED vhosts
                   /\ Halt(Raised(tool))
                   /\ envFail' = TRUE
    /\ UNCHANGED <<hosts, httpd, certFile, keyFile, mkcertInstalled,
                   invocation, invoked, bootFailed, certResult, restartOutcome>>

UpdateHostsRemove ==
    /\ Ran("hostsrm")
    /\ \E ioOk \in BOOLEAN :
         IF ioOk
         THEN /\ hosts' = UpdateHosts(hosts, dom, FALSE)
              /\ Advance
              /\ UNCHANGED envFail
         ELSE /\ UNCHANGED hosts
              /\ Halt(Raised(tool))
              /\ envFail' = TRUE
    /\ UNCHANGED <<httpd, vhosts, certFile, keyFile, mkcertInstalled,
                   invocation, invoked, bootFailed, certResult, restartOutcome>>

\* delete_ssl_cert: unlink the certificate, then unlink the key
DeleteSslCert ==
    /\ Ran("certdel")
    /\ \E out \in {"ok", "fail_cert", "fail_key"} :
         /\ (out = "fail_cert") => certFile[dom] # 0
         /\ (out = "fail_key") => keyFile[dom] # 0
         /\ certFile' = [certFile EXCEPT ![dom] =
                            DeleteSslCertFiles(certFile[dom], keyFile[dom], out).cert]
         /\ keyFile' = [keyFile EXCEPT ![dom] =
                           DeleteSslCertFiles(certFile[dom], keyFile[dom], out).key]
         /\ IF out = "ok"
            THEN Advance /\ UNCHANGED envFail
            ELSE Halt(Raised(tool)) /\ envFail' = TRUE
    /\ UNCHANGED <<hosts, httpd, vhosts, mkcertInstalled,
                   invocation, invoked, bootFailed, certResult, restartOutcome>>

Next ==
    \/ Invoke
    \/ PathCheck
    \/ EnsureIncludeInHttpd
    \/ InstallMkcert
    \/ SetupMkcertCa
    \/ CheckAndEnableModSsl
    \/ GenerateSslCert
    \/ CreateVhostFile
    \/ UpdateHostsAdd
    \/ RestartApache
    \/ DeleteVhost
    \/ UpdateHostsRemove
    \/ DeleteSslCert

Spec == Init /\ [][Next]_vars

(***************************************************************************)
(* Vocabulary of the properties.                                           *)
(***************************************************************************)
\* the lines of a file without their terminators
StripNL(line) ==
    IF line # <<>> /\ line[Len(line)] = NL THEN SubSeq(line, 1, Len(line) - 1) ELSE line

LinesOf(f) == [k \in 1..Len(ReadLines(f)) |-> StripNL(ReadLines(f)[k])]

\* how many lines of f contain s
LinesContaining(f, s) ==
    Cardinality({k \in 1..Len(ReadLines(f)) : Contains(ReadLines(f)[k], s)})

HasRun(s) == \E i \in 1..Len(steps) : steps[i] = s

\* no trace of d in the stores s
NoTrace(s, d) ==
    /\ s.vhosts[d] = <<>>
    /\ s.certFile[d] = 0
    /\ s.keyFile[d] = 0
    /\ ~AnyLineContains(s.hosts, d)

Completed == pc = "done" /\ result = "ok"
CleanRun == Completed /\ ~envFail
PrevCleanRegister ==
    prev.op = "register" /\ prev.result = "ok" /\ ~prev.envFail /\ prev.dom = dom

(***************************************************************************)
(* C1  Register idempotence: a Register(d, p) that runs with every tool    *)
(* succeeding right after a Register(d, p) that did so changes neither the *)
(* vhost file of d, nor the hosts file, nor the certificate pair of d.     *)
(***************************************************************************)
SecondRegister ==
    /\ op = "register"
    /\ CleanRun
    /\ PrevCleanRegister
    /\ prev.path = path

C1_RegisterIdempotent ==
    SecondRegister =>
        /\ vhosts[dom] = pre.vhosts[dom]
        /\ vhosts[dom] # <<>>
        /\ hosts = pre.hosts
        /\ LinesContaining(hosts, dom) = LinesContaining(pre.hosts, dom)
        /\ certFile[dom] = pre.certFile[dom]
        /\ keyFile[dom] = pre.keyFile[dom]
        /\ PairExists(certFile[dom], keyFile[dom])

C1_Witness ==
    /\ SecondRegister
    /\ ~AnyLineContains(prev.pre.hosts, dom)
    /\ LinesContaining(hosts, dom) = 1

(***************************************************************************)
(* C2  Round trip: a successful Remove(d) right after a successful         *)
(* Register(d, p) of a domain that had no trace leaves the lines of the    *)
(* hosts file, the vhost directory and the certificate directory as they   *)
(* were before the Register.                                               *)
(***************************************************************************)
RegisterThenRemove ==
    /\ op = "remove"
    /\ CleanRun
    /\ PrevCleanRegister
    /\ NoTrace(prev.pre, dom)

C2_RoundTrip ==
    RegisterThenRemove =>
        /\ LinesOf(hosts) = LinesOf(prev.pre.hosts)
        /\ vhosts = prev.pre.vhosts
        /\ certFile = prev.pre.certFile
        /\ keyFile = prev.pre.keyFile

(***************************************************************************)
(* C3  Hosts-entry count.  As claimed: after a successful Register(d, p)   *)
(* exactly one line of the hosts file contains d, after a successful       *)
(* Remove(d) none does.                                                    *)
(***************************************************************************)
C3_ExactlyOneLine ==
    /\ (Completed /\ op = "register") => LinesContaining(hosts, dom) = 1
    /\ (Completed /\ op = "remove") => LinesContaining(hosts, dom) = 0

(***************************************************************************)
(* C3 as amended: after a successful Register(d, p) at least one line      *)
(* contains d; when no line contained d before, the file is the old one    *)
(* followed by "\n127.0.0.1    d\n" and exactly one line contains d, and   *)
(* when some line did, the file is left as it was.  After a successful     *)
(* Remove(d) no line contains d.                                           *)
(***************************************************************************)
C3_HostsEntryCount ==
    /\ (Completed /\ op = "register") =>
          /\ LinesContaining(hosts, dom) >= 1
          /\ IF LinesContaining(pre.hosts, dom) = 0
             THEN /\ LinesContaining(hosts, dom) = 1
                  /\ hosts = pre.hosts \o <<NL, IP>> \o dom \o <<NL>>
             ELSE hosts = pre.hosts
    /\ (Completed /\ op = "remove") => LinesContaining(hosts, dom) = 0

C3_Witness ==
    /\ Completed
    /\ op = "register"
    /\ LinesContaining(pre.hosts, dom) = 2
    /\ LinesContaining(hosts, dom) = 2

(***************************************************************************)
(* C4  Certificate pairing: in every reachable state <domain>.pem and      *)
(* <domain>-key.pem are both present or both absent.                       *)
(***************************************************************************)
C4_CertificatePairing ==
    \A d \in Domains : (certFile[d] = 0) <=> (keyFile[d] = 0)

(***************************************************************************)
(* C5  PathNotFound performs no mutation: a Register whose document root   *)
(* does not exist leaves the web-server config, the certificates, the      *)
(* vhost files and the hosts file unchanged and launches no external tool, *)
(* with either entry point.                                                *)
(***************************************************************************)
C5_PathNotFoundNoMutation ==
    (op = "register" /\ path \notin ExistingPaths) =>
        /\ Snapshot = pre
        /\ invoked = {}
        /\ (pc = "done" /\ HasRun("pathcheck")) => result = "returned"

(***************************************************************************)
(* C6  No partial registration on certificate failure: when                *)
(* generate_ssl_cert returns no pair the pipeline has halted, the vhost    *)
(* file of d and the hosts file are as before the Register, and the        *)
(* vhost, hosts and restart steps have not run.                            *)
(***************************************************************************)
C6_CertFailureHalts ==
    (certResult = "failed") =>
        /\ pc = "done"
        /\ result = "returned"
        /\ vhosts[dom] = pre.vhosts[dom]
        /\ hosts = pre.hosts
        /\ ~HasRun("vhost") /\ ~HasRun("hosts") /\ ~HasRun("restart")
        /\ "systemctl" \notin invoked

C6_Witness ==
    /\ certResult = "failed"
    /\ certFile[dom] # 0
    /\ keyFile[dom] = 0
    /\ tool = "laravel"

(***************************************************************************)
(* C7  Prerequisite failure is fatal: once the CA bootstrap has failed the *)
(* pipeline has halted without success and never runs the certificate,     *)
(* vhost, hosts or restart step.                                           *)
(***************************************************************************)
C7_PrerequisiteFailureHalts ==
    bootFailed =>
        /\ pc = "done"
        /\ result # "ok"
        /\ ~HasRun("cert") /\ ~HasRun("vhost") /\ ~HasRun("hosts") /\ ~HasRun("restart")

(***************************************************************************)
(* C8  Restart is non-fatal: once the restart step has run the operation   *)
(* is reported as successful whatever the restart's outcome, and after a   *)
(* Register the vhost file, a hosts line and the certificate pair of d are *)
(* present.                                                                *)
(***************************************************************************)
C8_RestartNonFatal ==
    HasRun("restart") =>
        /\ result = "ok"
        /\ (op = "register") =>
              /\ vhosts[dom] # <<>>
              /\ AnyLineContains(hosts, dom)
              /\ PairExists(certFile[dom], keyFile[dom])

(***************************************************************************)
(* C9  Remove idempotence: a Remove(d) of a domain with no vhost file, no  *)
(* hosts line and no certificate file never changes the hosts file, the    *)
(* vhost directory or the certificate directory; no step fails because     *)
(* something is absent, so with the file system and the service manager    *)
(* working it ends successfully, having launched only the restart.         *)
(***************************************************************************)
RemoveOfNothing == op = "remove" /\ NoTrace(pre, dom)

C9_RemoveIdempotent ==
    RemoveOfNothing =>
        /\ hosts = pre.hosts
        /\ vhosts = pre.vhosts
        /\ certFile = pre.certFile
        /\ keyFile = pre.keyFile
        /\ (pc = "done" /\ steps # <<>> /\ ~envFail) => result = "ok"
        /\ Completed => (steps = RemoveSteps /\ invoked = {"systemctl"})

C9_Witness ==
    /\ RemoveOfNothing
    /\ Completed
    /\ Len(ReadLines(hosts)) = 1
    /\ hosts[Len(hosts)] # NL

(***************************************************************************)
(* C10 Remove terminal state: once a Remove(d) has got past its three      *)
(* deletions, whatever it started from, there is no vhost file of d, no    *)
(* hosts line containing d and neither certificate file of d; and a        *)
(* Remove(d) that completes has run the restart after them.                *)
(***************************************************************************)
C10_RemoveTerminal ==
    (op = "remove" /\ (pc = "restart" \/ HasRun("restart"))) =>
        /\ vhosts[dom] = <<>>
        /\ LinesContaining(hosts, dom) = 0
        /\ certFile[dom] = 0
        /\ keyFile[dom] = 0
        /\ (pc = "done") =>
              (steps = RemoveSteps /\ restartOutcome # "none" /\ "systemctl" \in invoked)

C10_Witness ==
    /\ op = "remove"
    /\ Completed
    /\ restartOutcome = "nonzero"
    /\ pre.certFile[dom] = 0
    /\ pre.keyFile[dom] # 0
    /\ AnyLineContains(pre.hosts, dom)
    /\ keyFile[dom] = 0

(***************************************************************************)
(* C11 Step ordering: the steps of a Register run in the order include     *)
(* check, CA bootstrap, certificate, vhost write, hosts add, restart, and  *)
(* those of a Remove in the order vhost delete, hosts remove, certificate  *)
(* delete, restart; and no step starts unless the one before it succeeded, *)
(* so nothing runs after a failed CA bootstrap.                            *)
(***************************************************************************)
IsPrefix(a, b) == Len(a) <= Len(b) /\ SubSeq(b, 1, Len(a)) = a

\* the steps the claim orders: the path test and the mod_ssl check are not among them
OrderedSteps(sq) == SelectSeq(sq, LAMBDA s : s \notin {"pathcheck", "modssl"})

C11_StepOrdering ==
    /\ (op = "register") =>
          IsPrefix(OrderedSteps(steps),
                   <<"include", "install", "ca", "cert", "vhost", "hosts", "restart">>)
    /\ (op = "remove") =>
          IsPrefix(steps, <<"vhostdel", "hostsrm", "certdel", "restart">>)
    /\ bootFailed =>
          (OrderedSteps(steps)[Len(OrderedSteps(steps))] \in {"install", "ca"})

(***************************************************************************)
(* C12 Exit status: an invocation ends with status 0 exactly when its      *)
(* pipeline ran to completion (to the restart, whatever its outcome), and  *)
(* with a non-zero status when a precondition or step failed or the        *)
(* privileges were missing; with missing privileges no store is touched.   *)
(***************************************************************************)
\* main(): sys.exit(1) and an uncaught exception end the process with status 1; a
\* pipeline that returns, with or without an error message, lets main() return
ExitStatus(r) == IF r \in {"sysexit", "uncaught"} THEN 1 ELSE 0

PrivilegesMissing == pc = "done" /\ result = "sysexit" /\ steps = <<>>

C12_ExitStatus ==
    (pc = "done" /\ runs > 0) =>
        /\ (ExitStatus(result) = 0) <=> HasRun("restart")
        /\ PrivilegesMissing => (ExitStatus(result) # 0 /\ Snapshot = pre)

(***************************************************************************)
(* The stores after an earlier failure: one file of the pair of a domain   *)
(* is left over (by a mkcert run that failed after writing one file, or by *)
(* a delete_ssl_cert whose second unlink raised), nothing else is          *)
(* registered.                                                             *)
(***************************************************************************)
LeftOver == {[cert |-> 1, key |-> 0], [cert |-> 0, key |-> 1]}

InitAfterFailure ==
    /\ hosts \in InitHosts
    /\ httpd \in InitHttpd
    /\ vhosts = [d \in Domains |-> <<>>]
    /\ \E l \in LeftOver :
         /\ certFile = [d \in Domains |-> IF d = Domain(<<"app">>) THEN l.cert ELSE 0]
         /\ keyFile = [d \in Domains |-> IF d = Domain(<<"app">>) THEN l.key ELSE 0]
    /\ runs = 0
    /\ mkcertInstalled \in BOOLEAN
    /\ tool = "none"
    /\ op = "none"
    /\ dom = <<>>
    /\ path = NoPath
    /\ pc = "done"
    /\ result = "none"
    /\ steps = <<>>
    /\ invoked = {}
    /\ envFail = FALSE
    /\ bootFailed = FALSE
    /\ certResult = "none"
    /\ restartOutcome = "none"
    /\ pre = Snapshot
    /\ prev = [op |-> "none", tool |-> "none", dom |-> <<>>, path |-> NoPath,
               result |-> "none", envFail |-> FALSE, pre |-> Snapshot]

SpecAfterFailure == InitAfterFailure /\ [][Next]_vars

(***************************************************************************)
(* C13 Re-run converges: a Register(d, p) that runs with every step        *)
(* succeeding right after a Register(d, p) that halted ends with the vhost *)
(* file, the hosts file and the certificate pair that one uninterrupted    *)
(* Register(d, p) from the original state gives: the rendered vhost file,  *)
(* the hosts file with the line of d added if none contained d, and the    *)
(* original pair if it was complete, else one pair issued by one mkcert    *)
(* run.  Likewise a Remove(d) after a Remove(d) that halted ends with no   *)
(* vhost file, no certificate file and the original hosts lines without d. *)
(***************************************************************************)
Halted(r) == r \in {"returned", "caught", "uncaught", "sysexit"}

RegisterRerun ==
    /\ op = "register"
    /\ CleanRun
    /\ prev.op = "register"
    /\ prev.dom = dom
    /\ prev.path = path
    /\ Halted(prev.result)

RemoveRerun ==
    /\ op = "remove"
    /\ CleanRun
    /\ prev.op = "remove"
    /\ prev.dom = dom
    /\ Halted(prev.result)

C13_RerunConverges ==
    /\ RegisterRerun =>
          /\ vhosts[dom] = <<VhostConfig(dom, path, CertPath(dom), KeyPath(dom))>>
          /\ hosts = IF LinesContaining(prev.pre.hosts, dom) > 0
                     THEN prev.pre.hosts
                     ELSE prev.pre.hosts \o <<NL, IP>> \o dom \o <<NL>>
          /\ IF prev.pre.certFile[dom] # 0 /\ prev.pre.keyFile[dom] # 0
             THEN /\ certFile[dom] = prev.pre.certFile[dom]
                  /\ keyFile[dom] = prev.pre.keyFile[dom]
             ELSE certFile[dom] # 0 /\ certFile[dom] = keyFile[dom]
    /\ RemoveRerun =>
          /\ vhosts[dom] = <<>>
          /\ certFile[dom] = 0
          /\ keyFile[dom] = 0
          /\ ReadLines(hosts) =
                SelectSeq(ReadLines(prev.pre.hosts), LAMBDA l : ~Contains(l, dom))

(***************************************************************************)
(* C14 Include directive added at most once: the web-server config file is *)
(* always either as it was found or as it was found with the one include   *)
(* directive appended, the latter only when no line of the file as found   *)
(* contained the include-directory token; an invocation leaves the file as *)
(* it was at its start unless it is a Register that found no line with the *)
(* token, which appends the directive and changes nothing else; Remove     *)
(* never touches the file.                                                 *)
(***************************************************************************)
IncludeDirective == <<NL, IncludeToken, "*.conf", NL>>

C14_IncludeAtMostOnce ==
    /\ \/ httpd \in InitHttpd
       \/ \E h \in InitHttpd :
            /\ LinesContaining(h, <<IncludeToken>>) = 0
            /\ httpd = h \o IncludeDirective
    /\ \/ httpd = pre.httpd
       \/ /\ op = "register"
          /\ HasRun("include")
          /\ LinesContaining(pre.httpd, <<IncludeToken>>) = 0
          /\ httpd = pre.httpd \o IncludeDirective
    /\ (op = "remove") => (httpd = pre.httpd)

\* a Register leaves alone the directive that the Register before it appended
C14_Witness ==
    /\ op = "register"
    /\ Completed
    /\ HasRun("include")
    /\ prev.op = "register"
    /\ pre.httpd = prev.pre.httpd \o IncludeDirective
    /\ httpd = pre.httpd

(***************************************************************************)
(* C15 Certificate obtain succeeds only with a complete pair: whenever the *)
(* certificate step of a Register has returned the two paths, the          *)
(* certificate file and the key file of the domain both exist, and a       *)
(* Register that has run the vhost step has a complete pair on disk for    *)
(* the paths the vhost file names.                                         *)
(***************************************************************************)
C15_ObtainCompletePair ==
    /\ (certResult = "pair") => (certFile[dom] # 0 /\ keyFile[dom] # 0)
    /\ (op = "register" /\ HasRun("vhost")) => (certFile[dom] # 0 /\ keyFile[dom] # 0)

(***************************************************************************)
(* Vocabulary of C16: the hosts lines "<address> <d>" of a domain d, and   *)
(* whether the string s occurs inside the string t.                        *)
(***************************************************************************)
LinesNaming(f, d) ==
    SelectSeq(LinesOf(f), LAMBDA l : Len(l) = Len(d) + 1 /\ SubSeq(l, 2, Len(l)) = d)

Occurs(s, t) ==
    \E i \in 1..(Len(t) - Len(s) + 1) : SubSeq(t, i, i + Len(s) - 1) = s

OtherFilesKept(d2) ==
    /\ vhosts[d2] = pre.vhosts[d2]
    /\ certFile[d2] = pre.certFile[d2]
    /\ keyFile[d2] = pre.keyFile[d2]

(***************************************************************************)
(* C16 Cross-domain isolation: an invocation for d leaves the hosts lines, *)
(* the vhost file and the certificate pair of every other registered       *)
(* domain d2 unchanged, also when d occurs inside d2 or d2 inside d; and a *)
(* successful Register(d, p) leaves a hosts line of d's own.               *)
(***************************************************************************)
C16_CrossDomainIsolation ==
    /\ \A d2 \in Domains \ {dom} :
          (op # "none" /\ pre.vhosts[d2] # <<>>) =>
              /\ OtherFilesKept(d2)
              /\ LinesNaming(hosts, d2) = LinesNaming(pre.hosts, d2)
    /\ (Completed /\ op = "register") => LinesNaming(hosts, dom) # <<>>

(***************************************************************************)
(* C16 as amended: an invocation for d leaves the vhost file and the       *)
(* certificate pair of every other domain d2 unchanged.  It leaves the     *)
(* hosts lines of d2 unchanged when d does not occur inside d2, and        *)
(* Register does so in every case.  When d occurs inside d2, a successful  *)
(* Remove(d) leaves no hosts line of d2, and a successful Register(d, p)   *)
(* that found a hosts line of d2 leaves the hosts file as it was, adding   *)
(* no line for d.                                                          *)
(***************************************************************************)
C16_IsolationUpToSubstring ==
    \A d2 \in Domains \ {dom} :
        (op # "none") =>
            /\ OtherFilesKept(d2)
            /\ (~Occurs(dom, d2) \/ op = "register") =>
                  LinesNaming(hosts, d2) = LinesNaming(pre.hosts, d2)
            /\ (Occurs(dom, d2) /\ op = "remove" /\ Completed) =>
                  LinesNaming(hosts, d2) = <<>>
            /\ (Occurs(dom, d2) /\ op = "register" /\ Completed
                   /\ LinesNaming(pre.hosts, d2) # <<>>) =>
                  hosts = pre.hosts

\* Remove(app.test) has taken the hosts line of the registered myapp.test
C16_Witness ==
    \E d2 \in Domains \ {dom} :
        /\ Completed
        /\ op = "remove"
        /\ Occurs(dom, d2)
        /\ pre.vhosts[d2] # <<>>
        /\ vhosts[d2] = pre.vhosts[d2]
        /\ LinesNaming(pre.hosts, d2) # <<>>
        /\ LinesNaming(hosts, d2) = <<>>

====
